---- MODULE Spec2Model ----
(***************************************************************************)
(* Model of src/scraper.py: the card resolver (try_parse_here,             *)
(* try_parse_shadow, dfs_frames_for_card), the iframe nudges               *)
(* (deep_join_nudge, poke_next_like), the network collectors and the       *)
(* polling loops of main() (card-resolution loop, dedup/emit, next-round   *)
(* gate).                                                                  *)
(*                                                                         *)
(* Python None is modelled as NoCard for a card and as the empty sequence  *)
(* NoRid for a round id; a present round id is the one-element sequence    *)
(* <<text>>.  Time is counted in whole seconds.                            *)
(*                                                                         *)
(* Spec is main() from the first iteration of its main loop on.  The       *)
(* browsing context is followed call by call in SpecResolver; main() never *)
(* reads it, so Spec draws each resolver and nudge outcome over every      *)
(* context the driver can be in.  Of main()'s locals, how, round_num and   *)
(* table_idx only feed print and the tile index of reopen_table and are    *)
(* left out.                                                               *)
(***************************************************************************)
EXTENDS Integers, Sequences, FiniteSets, TLC

VARIABLES
    pc,            \* position of main(): "top", "card_loop", "save", "gate_loop", "after_gate", "done", "crashed"
    elapsed,       \* time.time() - start_ts, saturating at RUN_SECONDS
    card_wait,     \* time.time() - t0, saturating above ROUND_TIMEOUT
    gate_wait,     \* time.time() - gate_start, saturating at the refresh threshold
    parsed,        \* main: parsed
    rid,           \* main: rid
    last_sig,      \* main: last_sig
    saved,         \* main: saved
    stuck_cycles,  \* main: stuck_cycles
    joined,        \* main: joined
    net_new,       \* len(network_seen) - prev_net, saturating at 1
    prev_shadow,   \* main: prev_shadow
    ctx,           \* the driver's browsing context around a resolver or nudge call: the path of
                   \* iframe indices from the top document
    rows,          \* the rows passed to append_row, in order
    ladder,        \* the recovery actions of the current next-round wait, in order
    ops,           \* the collaborator operations performed by the last step of main(), in order
    call           \* the last resolver poll or nudge call: its inputs, result and contexts

vars == <<pc, elapsed, card_wait, gate_wait, parsed, rid, last_sig, saved,
          stuck_cycles, joined, net_new, prev_shadow, ctx, rows, ladder, ops, call>>

mainVars == <<pc, elapsed, card_wait, gate_wait, parsed, rid, last_sig, saved,
              stuck_cycles, joined, net_new, prev_shadow, rows, ladder, ops>>

----------------------------------------------------------------------------
(* Bounds of the model and values of the environment                       *)

\* iframes a document holds at most
NumFrames == 2
\* nesting depth of the frame tree of the page
TreeDepth == 2
\* response bodies one performance-log read returns at most
MaxBodies == 2
\* the largest max_depth dfs_frames_for_card is called with on its own
MaxDepthArg == 1

NoCard == [rank |-> 0, suit_key |-> ""]
Cards == {[rank |-> 7, suit_key |-> "D"], [rank |-> 12, suit_key |-> "S"]}
NoRid == <<>>
RoundIdTexts == {"", "R100", "R101"}

Min(a, b) == IF a < b THEN a ELSE b
Max(a, b) == IF a > b THEN a ELSE b

----------------------------------------------------------------------------
(* Browsing context                                                        *)

Top == <<>>
RECURSIVE PathsOfLen(_)
PathsOfLen(n) ==
    IF n = 0 THEN {Top}
    ELSE {Append(p, i) : p \in PathsOfLen(n - 1), i \in 1..NumFrames}
Paths == UNION {PathsOfLen(n) : n \in 0..TreeDepth}

\* driver.switch_to.parent_frame(): the parent context; the top document stays
parent_frame(c) == IF c = Top THEN Top ELSE SubSeq(c, 1, Len(c) - 1)

\* driver.find_elements(By.TAG_NAME, "iframe"): how many iframes the document may hold
FrameCounts(c) == IF Len(c) < TreeDepth THEN 0..NumFrames ELSE {0}

----------------------------------------------------------------------------
(* Evidence of one document: what each collector yields                    *)

Sources == {"url", "js", "text", "shadowUrl", "shadowText"}
EvidenceOf(card, Y) == [s \in Sources |-> IF s \in Y THEN card ELSE NoCard]
Evidence == {EvidenceOf(c, Y) : c \in Cards, Y \in SUBSET Sources}
NoEvidence == EvidenceOf(NoCard, {})

\* the collaborator call of one resolver pass over a document that raises, if any
FailModes == {"none", "page_source", "js_collect_hints", "js_collect_shadow", "find_elements"}

\* js_collect_hints(driver): the JS-computed hints, or an exception
js_collect_hints(ev, fail) ==
    [exc |-> fail = "js_collect_hints", card |-> ev["js"]]

\* js_collect_shadow(driver): the shadow-DOM urls and tokens, or an exception
js_collect_shadow(ev, fail) ==
    [exc |-> fail = "js_collect_shadow", url |-> ev["shadowUrl"], tok |-> ev["shadowText"]]

Found(p, h, cons) == [p |-> p, how |-> h, exc |-> FALSE, consulted |-> cons]
Raised(cons) == [p |-> NoCard, how |-> "", exc |-> TRUE, consulted |-> cons]

try_parse_here(ev, fail) ==
    IF fail = "page_source" THEN Raised(<<>>)
    ELSE IF ev["url"] # NoCard THEN Found(ev["url"], "via=dom-url", <<"dom">>)
    ELSE LET hints == js_collect_hints(ev, fail) IN
         IF hints.exc THEN Raised(<<"dom">>)
         ELSE IF hints.card # NoCard THEN Found(hints.card, "via=dom-js", <<"dom", "js">>)
         ELSE IF ev["text"] # NoCard THEN Found(ev["text"], "via=dom-text", <<"dom", "js", "text">>)
         ELSE Found(NoCard, "", <<"dom", "js", "text">>)

try_parse_shadow(ev, fail) ==
    LET sh == js_collect_shadow(ev, fail) IN
    IF sh.exc THEN Raised(<<>>)
    ELSE IF sh.url # NoCard THEN Found(sh.url, "via=shadow-url", <<"shadow">>)
    ELSE IF sh.tok # NoCard THEN Found(sh.tok, "via=shadow-text", <<"shadow">>)
    ELSE Found(NoCard, "", <<"shadow">>)

DfsOut(p, h, exc, c, cons, deep) ==
    [p |-> p, how |-> h, exc |-> exc, ctx |-> c, consulted |-> cons, deepest |-> deep]

\* the depth guard left out
DepthReached_never(depth, max_depth) == FALSE

\* "if depth >= max_depth: return None, ''"
DepthReached(depth, max_depth) == depth >= max_depth

RECURSIVE dfs_frames_for_card(_, _, _, _, _)
RECURSIVE dfs_frame_loop(_, _, _, _, _, _, _)

\* The loop over the iframes of document c (for fr in driver.find_elements(...)).
\* S holds the states the loop can be in before frame i: the current context cur,
\* whether a child frame was entered, and the deepest level parsed so far.
dfs_frame_loop(c, max_depth, depth, i, n, S, cons) ==
    IF i > n
    THEN {DfsOut(NoCard, "", FALSE, s.cur,
                 IF s.entered THEN Append(cons, "frames") ELSE cons, s.deepest) : s \in S}
    ELSE LET inside == {s \in S : s.cur = c}
             kids == IF inside = {} THEN {}
                     ELSE dfs_frames_for_card(Append(c, i), max_depth, depth + 1, Evidence, FailModes)
             \* driver.switch_to.frame(fr) raises: the handler calls parent_frame()
             detached == {[cur |-> parent_frame(s.cur), entered |-> s.entered, deepest |-> s.deepest] : s \in S}
             \* the frame was entered; the recursive call returned a card
             hit == {DfsOut(o.p, o.how, FALSE, parent_frame(o.ctx), Append(cons, "frames"),
                            Max(s.deepest, o.deepest))
                     : o \in {k \in kids : ~k.exc /\ k.p # NoCard}, s \in inside}
             \* the frame was entered; the recursive call returned nothing, or raised
             \* and the handler called parent_frame()
             miss == {[cur |-> parent_frame(o.ctx), entered |-> TRUE,
                       deepest |-> Max(s.deepest, o.deepest)]
                      : o \in {k \in kids : k.exc \/ k.p = NoCard}, s \in inside}
         IN  hit \cup dfs_frame_loop(c, max_depth, depth, i + 1, n, detached \cup miss, cons)

\* dfs_frames_for_card(driver, max_depth, depth) called in document c: every outcome
\* it can have when the document's evidence is in EvSet and the failing call in FailSet
dfs_frames_for_card(c, max_depth, depth, EvSet, FailSet) ==
    LET node(ev, fail) ==
          LET h == try_parse_here(ev, fail) IN
          IF h.exc THEN {DfsOut(NoCard, "", TRUE, c, h.consulted, depth)}
          ELSE IF h.p # NoCard THEN {DfsOut(h.p, h.how, FALSE, c, h.consulted, depth)}
          ELSE LET s == try_parse_shadow(ev, fail)
                   cons == h.consulted \o s.consulted IN
               IF s.exc THEN {DfsOut(NoCard, "", TRUE, c, cons, depth)}
               ELSE IF s.p # NoCard THEN {DfsOut(s.p, s.how, FALSE, c, cons, depth)}
               ELSE IF DepthReached(depth, max_depth) THEN {DfsOut(NoCard, "", FALSE, c, cons, depth)}
               ELSE IF fail = "find_elements" THEN {DfsOut(NoCard, "", TRUE, c, cons, depth)}
               ELSE UNION {dfs_frame_loop(c, max_depth, depth, 1, n,
                                          {[cur |-> c, entered |-> FALSE, deepest |-> depth]}, cons)
                           : n \in FrameCounts(c)}
    IN UNION {node(ev, fail) : ev \in EvSet, fail \in FailSet}

----------------------------------------------------------------------------
(* Iframe nudges                                                           *)

RECURSIVE nudge_loop(_, _, _, _)
\* The loop of deep_join_nudge / poke_next_like over frames[:5] of document c.
\* S holds the contexts the driver can be in before frame i.
nudge_loop(c, i, n, S) ==
    IF i > n THEN {[did |-> FALSE, exc |-> FALSE, ctx |-> cur] : cur \in S}
    ELSE LET \* switch_to.frame(fr) raises: the handler calls parent_frame()
             detached == {parent_frame(cur) : cur \in S}
             \* the frame was entered, a click succeeded: parent_frame(), break
             clicked == IF c \in S THEN {[did |-> TRUE, exc |-> FALSE, ctx |-> parent_frame(Append(c, i))]}
                        ELSE {}
             \* the frame was entered, nothing was clicked: parent_frame(), next frame
             idle == IF c \in S THEN {parent_frame(Append(c, i))} ELSE {}
         IN  clicked \cup nudge_loop(c, i + 1, n, detached \cup idle)

nudge_frames(c) ==
    {[did |-> FALSE, exc |-> TRUE, ctx |-> c]}      \* driver.find_elements raises
    \cup UNION {nudge_loop(c, 1, Min(n, 5), {c}) : n \in FrameCounts(c)}

deep_join_nudge(c) == nudge_frames(c)

poke_next_like(c) == nudge_frames(c)

----------------------------------------------------------------------------
(* Network collectors                                                      *)

\* One unseen JSON/text response of the performance log: the card and the roundId
\* its body carries, or fail when Network.getResponseBody raises
Bodies ==
    [card : Cards \cup {NoCard}, roundId : {NoRid} \cup {<<t>> : t \in RoundIdTexts}, fail : {FALSE}]
    \cup {[card |-> NoCard, roundId |-> NoRid, fail |-> TRUE]}

RECURSIVE SeqsUpTo(_, _)
SeqsUpTo(S, n) ==
    IF n = 0 THEN {<<>>}
    ELSE LET shorter == SeqsUpTo(S, n - 1) IN
         shorter \cup {Append(q, x) : q \in {r \in shorter : Len(r) = n - 1}, x \in S}

Batches == SeqsUpTo(Bodies, MaxBodies)

RECURSIVE json_scan(_, _, _)
\* the for loop of collect_network_json_card from entry i on, round_id as found so far
json_scan(bodies, i, round_id) ==
    IF i > Len(bodies) THEN [card |-> NoCard, rid |-> NoRid]
    ELSE LET b == bodies[i] IN
         IF b.fail THEN json_scan(bodies, i + 1, round_id)
         ELSE LET found == IF b.roundId # NoRid THEN b.roundId ELSE round_id IN
              IF b.card # NoCard THEN [card |-> b.card, rid |-> found]
              ELSE json_scan(bodies, i + 1, found)

collect_network_json_card(bodies) == json_scan(bodies, 1, NoRid)

\* Python truthiness of a round id: None and the empty string are false
Truthy(r) == r # NoRid /\ r[1] # ""

\* every (card, roundId) pair one call of collect_network_json_card can return
JsonOutcomes == {collect_network_json_card(b) : b \in Batches}

----------------------------------------------------------------------------
(* One resolver poll of main(): lines 817-822                              *)

\* max_depth as main() passes it
MAX_DEPTH == 5

\* the outcomes of dfs_frames_for_card(driver, max_depth=5) from each context, for
\* each evidence and failing call of the document it starts in
DfsTable ==
    [c \in Paths, ev \in Evidence, fail \in FailModes |->
        dfs_frames_for_card(c, MAX_DEPTH, 0, {ev}, {fail})]

\* dfs_frames_for_card(driver, max_depth=5) from context c, then the network bodies
\* when the frames gave nothing
poll(c, ev, fail, net) ==
    {LET viaJson == ~d.exc /\ d.p = NoCard /\ net.card # NoCard IN
     [p         |-> IF viaJson THEN net.card ELSE d.p,
      how       |-> IF viaJson THEN "via=json" ELSE d.how,
      rid       |-> IF ~d.exc /\ d.p = NoCard /\ Truthy(net.rid) THEN net.rid ELSE NoRid,
      exc       |-> d.exc,
      ctx       |-> d.ctx,
      consulted |-> IF ~d.exc /\ d.p = NoCard THEN Append(d.consulted, "network") ELSE d.consulted,
      deepest   |-> d.deepest]
     : d \in DfsTable[c, ev, fail]}

NudgeTable == [c \in Paths |-> nudge_frames(c)]

----------------------------------------------------------------------------
(* Configuration and literals of main()                                    *)

\* RUN_SECONDS, MAX_ROUNDS and ROUND_TIMEOUT are read from the process environment;
\* the values below are one configuration with both budgets set
RUN_SECONDS == 30
MAX_ROUNDS == 2
ROUND_TIMEOUT == 12
\* time.sleep(5) closing each loop iteration
POLL_SLEEP == 5
\* time.sleep(10) after driver.refresh()
REFRESH_SLEEP == 10
\* time.sleep(10) after driver.get(URL) in reopen_table, the shortest it takes
REOPEN_SLEEP == 10
\* "if waited >= 8 and not joined"
JOIN_AFTER == 8
\* "if waited >= 20"
REFRESH_AFTER == 20
\* "if stuck_cycles >= 1"
STUCK_CAP == 1
\* "waited in (4, 8, 12, 16)"
POKE_AT == {4, 8, 12, 16}

\* seconds the collector calls of one loop iteration may take
Durations == {0, 4, 20}

Adv(x, d, cap) == Min(x + d, cap)

color_of(suit_key) == IF suit_key \in {"H", "D"} THEN "red" ELSE "black"
\* seven counted as below seven
result_of_le7(rank) == IF rank <= 7 THEN "below7" ELSE "above7"

result_of(rank) == IF rank < 7 THEN "below7" ELSE IF rank = 7 THEN "seven" ELSE "above7"

\* str(rid) inside the f-string: None prints as "None"
PyStr(r) == IF r = NoRid THEN "None" ELSE r[1]

\* the round id left out of the signature
Sig_noRid(r, rank, suit) == ToString(rank) \o "|" \o suit

\* sig = f"{rid}|{rank}|{suit}"
Sig(r, rank, suit) == PyStr(r) \o "|" \o ToString(rank) \o "|" \o suit

NoSig == <<>>

\* the signature compared with None instead of last_sig
IsNew_vsNone(sig, last) == <<sig>> # NoSig

\* "if sig != last_sig"
IsNew(sig, last) == <<sig>> # last

Row(r, card) ==
    [round_id |-> r, rank |-> card.rank, suit_key |-> card.suit_key,
     color |-> color_of(card.suit_key), result |-> result_of(card.rank)]

\* "RUN_SECONDS and (time.time() - start_ts) >= RUN_SECONDS"
TimeUp(e) == RUN_SECONDS # 0 /\ e >= RUN_SECONDS

\* the round budget compared with > instead of >=
RoundsUp_strict(n) == MAX_ROUNDS # 0 /\ n > MAX_ROUNDS

\* "MAX_ROUNDS and saved >= MAX_ROUNDS"
RoundsUp(n) == MAX_ROUNDS # 0 /\ n >= MAX_ROUNDS

\* the shadow-DOM snapshots js_collect_shadow can return
ShadowSnaps == {"s1", "s2"}
ZERO_SIG == "0000000000000000000000000000000000000000"

\* shadow_signature_hex(driver): the digest of the snapshot, or "0"*40 when the
\* collection raises
shadow_signature_hex(snap, fail) == IF fail THEN ZERO_SIG ELSE "sha1:" \o snap

ShadowSigs == {shadow_signature_hex(sn, f) : sn \in ShadowSnaps, f \in BOOLEAN}

----------------------------------------------------------------------------
(* Navigation sequences of main(), as sets of outcomes [exc, ctx]          *)

Nav(exc, c) == [exc |-> exc, ctx |-> c]

\* reattach_game_iframe(driver): default_content(), then the first displayed iframe,
\* else frames[0]; find_elements and the last switch_to.frame are unguarded
reattach_game_iframe ==
    {Nav(TRUE, Top)}
    \cup UNION {IF n = 0 THEN {Nav(FALSE, Top)} ELSE {Nav(FALSE, <<i>>) : i \in 1..Min(n, 5)}
                : n \in FrameCounts(Top)}

\* after the outcomes G, a nudge function called in the context reached
ThenNudge(G) ==
    UNION {IF g.exc THEN {g} ELSE {Nav(o.exc, o.ctx) : o \in NudgeTable[g.ctx]} : g \in G}

\* driver.refresh(); reattach_game_iframe; deep_join_nudge; poke_next_like, from context c
refresh_join_next(c) ==
    {Nav(TRUE, c)} \cup ThenNudge(ThenNudge(reattach_game_iframe))

\* reopen_table(driver, next_index): every failure inside is swallowed
reopen_table ==
    {Nav(FALSE, g.ctx) : g \in ThenNudge(ThenNudge(reattach_game_iframe))}

\* the outcomes main() sees, over every context the driver can be in
RefreshRaises == {g.exc : g \in UNION {refresh_join_next(c) : c \in Paths}}
ReattachRaises == {g.exc : g \in reattach_game_iframe}
ReopenRaises == {g.exc : g \in reopen_table}
NudgeResults == {[did |-> o.did, exc |-> o.exc] : o \in UNION {NudgeTable[c] : c \in Paths}}

\* what one poll of the card loop can give, over every context, evidence, failure
\* and network reply
PollResults ==
    {[p |-> o.p, rid |-> o.rid, exc |-> o.exc,
      askedNet |-> (Len(o.consulted) > 0 /\ o.consulted[Len(o.consulted)] = "network")]
     : o \in UNION {poll(c, ev, fail, net)
                    : c \in Paths, ev \in Evidence, fail \in FailModes, net \in JsonOutcomes}}

----------------------------------------------------------------------------
(* main(): the state after "start_ts = time.time() ... stuck_cycles = 0"   *)

NoCall == [fn |-> "none"]

Init ==
    /\ pc = "top"
    /\ elapsed = 0
    /\ card_wait = 0
    /\ gate_wait = 0
    /\ parsed = NoCard
    /\ rid = NoRid
    /\ last_sig = NoSig
    /\ saved = 0
    /\ stuck_cycles = 0
    /\ joined = FALSE
    /\ net_new = 0
    /\ prev_shadow = ZERO_SIG
    /\ ctx = Top
    /\ rows = <<>>
    /\ ladder = <<>>
    /\ ops = <<>>
    /\ call = NoCall

\* an exception leaves main(): the finally clause quits the driver
Crash(done) ==
    /\ pc' = "crashed"
    /\ ops' = done
    /\ UNCHANGED <<elapsed, card_wait, gate_wait, parsed, rid, last_sig, saved,
                   stuck_cycles, joined, net_new, prev_shadow, ctx, rows, ladder, call>>

\* lines 810-815: the budget check at the top of the main loop, then the reset of
\* t0, parsed, how, rid
MainTop ==
    /\ pc = "top"
    /\ IF TimeUp(elapsed)
       THEN /\ pc' = "done"
            /\ UNCHANGED <<card_wait, parsed, rid>>
       ELSE /\ pc' = "card_loop"
            /\ card_wait' = 0
            /\ parsed' = NoCard
            /\ rid' = NoRid
    /\ ops' = <<>>
    /\ UNCHANGED <<elapsed, gate_wait, last_sig, saved, stuck_cycles, joined, net_new,
                   prev_shadow, ctx, rows, ladder, call>>

\* lines 816-831: one iteration of "while not parsed"
CardLoopIter ==
    /\ pc = "card_loop"
    /\ \E o \in PollResults, imgs \in 0..1, d \in Durations :
         LET polled == IF o.askedNet
                       THEN <<"dfs_frames_for_card", "collect_network_json_card">>
                       ELSE <<"dfs_frames_for_card">>
         IN
         IF o.exc THEN Crash(polled)
         ELSE
           LET found   == o.p # NoCard
               waited  == Adv(card_wait, d, ROUND_TIMEOUT + 1)
               timeout == ~found /\ waited > ROUND_TIMEOUT
               done    == polled \o <<"collect_network_images">>
                          \o (IF timeout THEN <<"refresh">> ELSE <<>>)
           IN \E raises \in (IF timeout THEN RefreshRaises ELSE {FALSE}) :
                IF raises THEN Crash(done)
                ELSE /\ parsed' = o.p
                     /\ rid' = IF o.rid # NoRid THEN o.rid ELSE rid
                     /\ net_new' = Min(net_new + imgs, 1)
                     /\ card_wait' = IF timeout THEN POLL_SLEEP
                                     ELSE Adv(waited, POLL_SLEEP, ROUND_TIMEOUT + 1)
                     /\ elapsed' = Adv(elapsed, d + (IF timeout THEN REFRESH_SLEEP ELSE 0) + POLL_SLEEP,
                                       RUN_SECONDS)
                     /\ ops' = done
                     /\ pc' = IF found THEN "save" ELSE "card_loop"
                     /\ UNCHANGED <<gate_wait, last_sig, saved, stuck_cycles, joined,
                                    prev_shadow, ctx, rows, ladder, call>>

\* lines 833-856: the round id read, the duplicate check and append_row, then the
\* baseline of the next-round gate
Save ==
    /\ pc = "save"
    /\ \E read \in {NoRid} \cup {<<t>> : t \in RoundIdTexts \ {""}}, base \in ShadowSigs :
         LET r   == IF Truthy(rid) THEN rid ELSE read
             sig == Sig(r, parsed.rank, parsed.suit_key)
         IN /\ rid' = r
            /\ IF IsNew(sig, last_sig)
               THEN /\ rows' = Append(rows, Row(r, parsed))
                    /\ last_sig' = <<sig>>
                    /\ saved' = saved + 1
                    /\ stuck_cycles' = 0
                    /\ ops' = <<"append_row", "shadow_signature_hex">>
               ELSE /\ UNCHANGED <<rows, last_sig, saved, stuck_cycles>>
                    /\ ops' = <<"shadow_signature_hex">>
            /\ net_new' = 0
            /\ prev_shadow' = base
    /\ gate_wait' = 0
    /\ joined' = FALSE
    /\ ladder' = <<>>
    /\ pc' = "gate_loop"
    /\ UNCHANGED <<elapsed, card_wait, parsed, ctx, call>>

----------------------------------------------------------------------------
(* The next-round gate: lines 857-900                                      *)

\* the recovery level reached is recorded once per level
AddLevel(l, level) == IF Len(l) > 0 /\ l[Len(l)] = level THEN l ELSE Append(l, level)

\* "if waited in (4, 8, 12, 16)"
PokeDue(waited) == waited \in POKE_AT

\* the join nudge written as the branch below the refresh threshold only
JoinDue_belowRefresh(waited, isJoined) == waited >= JOIN_AFTER /\ waited < REFRESH_AFTER /\ ~isJoined

\* "if waited >= 8 and not joined"
JoinDue(waited, isJoined) == waited >= JOIN_AFTER /\ ~isJoined

\* "if waited >= 20"
RefreshDue(waited) == waited >= REFRESH_AFTER

\* "if stuck_cycles >= 1"
ReopenDue(stuck) == stuck >= STUCK_CAP

\* a nudge call followed by reattach_game_iframe(driver); either may raise
NudgeThenReattach(g, l, o1, setsJoined) ==
    UNION {IF n.exc
           THEN {[g EXCEPT !.exc = TRUE, !.ladder = l, !.ops = o1]}
           ELSE {[g EXCEPT !.exc = r, !.ladder = l,
                           !.joined = IF setsJoined THEN n.did ELSE g.joined,
                           !.ops = Append(o1, "reattach_game_iframe")]
                 : r \in ReattachRaises}
           : n \in NudgeResults}

\* lines 868-870: poke_next_like(driver); reattach_game_iframe(driver)
GatePoke(G, waited) ==
    UNION {IF g.exc \/ ~PokeDue(waited) THEN {g}
           ELSE NudgeThenReattach(g, AddLevel(g.ladder, "nudge"),
                                  Append(g.ops, "poke_next_like"), FALSE)
           : g \in G}

\* lines 872-877: default_content(); "if deep_join_nudge(driver): joined = True";
\* reattach_game_iframe(driver)
GateJoin(G, waited) ==
    UNION {IF g.exc \/ ~JoinDue(waited, g.joined) THEN {g}
           ELSE NudgeThenReattach(g, AddLevel(g.ladder, "nudge"),
                                  Append(g.ops, "deep_join_nudge"), TRUE)
           : g \in G}

\* lines 885-886: after the refresh the baseline is re-taken, the wait timer restarts,
\* joined is cleared and stuck_cycles is sc
AfterRefresh(g, l, o1, sc) ==
    [g EXCEPT !.ladder = l, !.ops = Append(o1, "shadow_signature_hex"), !.joined = FALSE,
              !.stuck = sc, !.refreshed = TRUE]

\* reopen_table that leaves the stuck-cycle count as it is
AfterReopen_keepsCount(g, r) ==
    [g EXCEPT !.exc = r, !.ladder = AddLevel(@, "reopenTable"),
              !.ops = @ \o <<"reopen_table", "shadow_signature_hex">>, !.joined = FALSE,
              !.refreshed = TRUE, !.reopened = TRUE]

\* lines 889-893: reopen_table, stuck_cycles = 0, the baseline re-taken, the wait
\* timer restarted, joined cleared
AfterReopen(g, r) ==
    [g EXCEPT !.exc = r, !.ladder = AddLevel(@, "reopenTable"),
              !.ops = @ \o <<"reopen_table", "shadow_signature_hex">>, !.joined = FALSE,
              !.stuck = 0, !.refreshed = TRUE, !.reopened = TRUE]

\* lines 879-893: refresh, new baseline, stuck_cycles += 1, and reopen_table once
\* stuck_cycles has reached its cap
GateRefresh(G, waited) ==
    UNION {IF g.exc \/ ~RefreshDue(waited) THEN {g}
           ELSE LET l  == AddLevel(g.ladder, "refresh")
                    o1 == Append(g.ops, "refresh")
                    sc == g.stuck + 1
                IN UNION {IF raises
                          THEN {[g EXCEPT !.exc = TRUE, !.ladder = l, !.ops = o1]}
                          ELSE IF ReopenDue(sc)
                          THEN {AfterReopen(AfterRefresh(g, l, o1, sc), r) : r \in ReopenRaises}
                          ELSE {AfterRefresh(g, l, o1, sc)}
                          : raises \in RefreshRaises}
           : g \in G}

\* a wait that ended in full re-acquisition starts over
StartLadder(l) == IF Len(l) > 0 /\ l[Len(l)] = "reopenTable" THEN <<>> ELSE l

GateIter ==
    /\ pc = "gate_loop"
    /\ \E net \in JsonOutcomes, imgs \in 0..1, sig_now \in ShadowSigs, d \in Durations :
         IF net.card # NoCard
         THEN \* line 859: a card in the network bodies ends the wait
              /\ parsed' = net.card
              /\ rid' = IF Truthy(net.rid) THEN net.rid ELSE rid
              /\ pc' = "after_gate"
              /\ ops' = <<"collect_network_json_card">>
              /\ elapsed' = Adv(elapsed, d, RUN_SECONDS)
              /\ gate_wait' = Adv(gate_wait, d, REFRESH_AFTER)
              /\ UNCHANGED <<card_wait, last_sig, saved, stuck_cycles, joined, net_new,
                             prev_shadow, ctx, rows, ladder, call>>
         ELSE IF net_new + imgs > 0 \/ sig_now # prev_shadow
         THEN \* lines 860-863: new images or a changed signature end the wait
              /\ net_new' = Min(net_new + imgs, 1)
              /\ pc' = "after_gate"
              /\ ops' = <<"collect_network_json_card", "collect_network_images", "shadow_signature_hex">>
              /\ elapsed' = Adv(elapsed, d, RUN_SECONDS)
              /\ gate_wait' = Adv(gate_wait, d, REFRESH_AFTER)
              /\ UNCHANGED <<card_wait, parsed, rid, last_sig, saved, stuck_cycles, joined,
                             prev_shadow, ctx, rows, ladder, call>>
         ELSE
           LET waited == Adv(gate_wait, d, REFRESH_AFTER)
               G0 == {[exc |-> FALSE, joined |-> joined, stuck |-> stuck_cycles,
                       ladder |-> StartLadder(ladder), refreshed |-> FALSE, reopened |-> FALSE,
                       ops |-> <<"collect_network_json_card", "collect_network_images",
                                 "shadow_signature_hex">>]}
           IN \E g \in GateRefresh(GateJoin(GatePoke(G0, waited), waited), waited), base \in ShadowSigs :
                IF g.exc
                THEN /\ pc' = "crashed"
                     /\ ops' = g.ops
                     /\ ladder' = g.ladder
                     /\ UNCHANGED <<elapsed, card_wait, gate_wait, parsed, rid, last_sig,
                                    saved, stuck_cycles, joined, net_new, prev_shadow, ctx, rows, call>>
                ELSE LET spent == d + (IF g.refreshed THEN REFRESH_SLEEP ELSE 0)
                                    + (IF g.reopened THEN REOPEN_SLEEP ELSE 0)
                         now   == Adv(elapsed, spent, RUN_SECONDS)
                         stop  == TimeUp(now)                      \* line 899
                     IN /\ joined' = g.joined
                        /\ stuck_cycles' = g.stuck
                        /\ ladder' = g.ladder
                        /\ ops' = g.ops
                        /\ prev_shadow' = IF g.refreshed THEN base ELSE prev_shadow
                        /\ net_new' = 0
                        /\ pc' = IF stop THEN "after_gate" ELSE "gate_loop"
                        /\ elapsed' = IF stop THEN now ELSE Adv(now, POLL_SLEEP, RUN_SECONDS)
                        /\ gate_wait' = LET w == IF g.refreshed THEN 0 ELSE waited
                                        IN IF stop THEN w ELSE Adv(w, POLL_SLEEP, REFRESH_AFTER)
                        /\ UNCHANGED <<card_wait, parsed, rid, last_sig, saved, ctx, rows, call>>

\* lines 902-904: the budget check after the gate, then time.sleep(5)
AfterGate ==
    /\ pc = "after_gate"
    /\ IF RoundsUp(saved) \/ TimeUp(elapsed)
       THEN /\ pc' = "done"
            /\ UNCHANGED elapsed
       ELSE /\ pc' = "top"
            /\ elapsed' = Adv(elapsed, POLL_SLEEP, RUN_SECONDS)
    /\ ops' = <<>>
    /\ UNCHANGED <<card_wait, gate_wait, parsed, rid, last_sig, saved, stuck_cycles,
                   joined, net_new, prev_shadow, ctx, rows, ladder, call>>

Next == MainTop \/ CardLoopIter \/ Save \/ GateIter \/ AfterGate

Spec == Init /\ [][Next]_vars

\* main() is a single thread that always takes its next step
FairSpec == Spec /\ WF_vars(Next)

----------------------------------------------------------------------------
(* The resolver and the nudges, call by call, from any browsing context    *)

ResolverInit ==
    /\ pc = "top"
    /\ elapsed = 0
    /\ card_wait = 0
    /\ gate_wait = 0
    /\ parsed = NoCard
    /\ rid = NoRid
    /\ last_sig = NoSig
    /\ saved = 0
    /\ stuck_cycles = 0
    /\ joined = FALSE
    /\ net_new = 0
    /\ prev_shadow = ZERO_SIG
    /\ ctx \in Paths
    /\ rows = <<>>
    /\ ladder = <<>>
    /\ ops = <<>>
    /\ call = NoCall

\* lines 817-822: one poll of the card loop on a document with evidence ev
RPoll ==
    /\ call.fn = "none"
    /\ \E ev \in Evidence, fail \in FailModes, net \in JsonOutcomes :
         \E o \in poll(ctx, ev, fail, net) :
            /\ call' = [fn |-> "poll", entry |-> ctx, exit |-> o.ctx, ev |-> ev, net |-> net,
                        p |-> o.p, how |-> o.how, rid |-> o.rid, exc |-> o.exc,
                        consulted |-> o.consulted, deepest |-> o.deepest]
            /\ ctx' = o.ctx
    /\ UNCHANGED mainVars

\* dfs_frames_for_card(driver, max_depth) called on its own with a small max_depth
RDfs ==
    /\ call.fn = "none"
    /\ \E md \in 0..MaxDepthArg, ev \in Evidence, fail \in FailModes :
         \E o \in dfs_frames_for_card(ctx, md, 0, {ev}, {fail}) :
            /\ call' = [fn |-> "dfs_frames_for_card", entry |-> ctx, exit |-> o.ctx,
                        max_depth |-> md, ev |-> ev, p |-> o.p, how |-> o.how, exc |-> o.exc,
                        consulted |-> o.consulted, deepest |-> o.deepest]
            /\ ctx' = o.ctx
    /\ UNCHANGED mainVars

RDeepJoinNudge ==
    /\ call.fn = "none"
    /\ \E o \in deep_join_nudge(ctx) :
         /\ call' = [fn |-> "deep_join_nudge", entry |-> ctx, exit |-> o.ctx,
                     did |-> o.did, exc |-> o.exc]
         /\ ctx' = o.ctx
    /\ UNCHANGED mainVars

RPokeNextLike ==
    /\ call.fn = "none"
    /\ \E o \in poke_next_like(ctx) :
         /\ call' = [fn |-> "poke_next_like", entry |-> ctx, exit |-> o.ctx,
                     did |-> o.did, exc |-> o.exc]
         /\ ctx' = o.ctx
    /\ UNCHANGED mainVars

RReattach ==
    /\ call.fn = "none"
    /\ \E o \in reattach_game_iframe :
         /\ call' = [fn |-> "reattach_game_iframe", entry |-> ctx, exit |-> o.ctx, exc |-> o.exc]
         /\ ctx' = o.ctx
    /\ UNCHANGED mainVars

\* the caller takes the result; the driver stays where the call left it
RReturn ==
    /\ call.fn # "none"
    /\ call' = NoCall
    /\ UNCHANGED <<ctx, mainVars>>

ResolverNext == RPoll \/ RDfs \/ RDeepJoinNudge \/ RPokeNextLike \/ RReattach \/ RReturn

SpecResolver == ResolverInit /\ [][ResolverNext]_vars

----------------------------------------------------------------------------
(* Card parsing from strings                                               *)

\* fragments a string is made of at most
MaxFrags == 2

RANK_MAP ==
    [r \in {"A", "2", "3", "4", "5", "6", "7", "8", "9", "10", "J", "Q", "K"} |->
        CASE r = "A" -> 1 [] r = "2" -> 2 [] r = "3" -> 3 [] r = "4" -> 4 [] r = "5" -> 5
          [] r = "6" -> 6 [] r = "7" -> 7 [] r = "8" -> 8 [] r = "9" -> 9 [] r = "10" -> 10
          [] r = "J" -> 11 [] r = "Q" -> 12 [] r = "K" -> 13]

SUIT_WORD ==
    [w \in {"SPADE", "HEART", "DIAMOND", "CLUB"} |->
        CASE w = "SPADE" -> "S" [] w = "HEART" -> "H" [] w = "DIAMOND" -> "D" [] w = "CLUB" -> "C"]

\* the four suit glyphs, written by name
SUIT_SYMBOL ==
    [g \in {"glyph-spade", "glyph-heart", "glyph-diamond", "glyph-club"} |->
        CASE g = "glyph-spade" -> "S" [] g = "glyph-heart" -> "H"
          [] g = "glyph-diamond" -> "D" [] g = "glyph-club" -> "C"]

CLOSED_HINTS == {"closed", "back", "backside", "card-back", "1_card_20_20"}

\* str.upper() on the captured groups that occur
Upper(t) ==
    CASE t = "ace" -> "ACE" [] t = "jack" -> "JACK" [] t = "queen" -> "QUEEN" [] t = "king" -> "KING"
      [] t = "spade" -> "SPADE" [] t = "heart" -> "HEART" [] t = "diamond" -> "DIAMOND"
      [] t = "club" -> "CLUB" [] t = "s" -> "S" [] OTHER -> t

\* the first character of a captured group
FirstChar(t) ==
    CASE t = "SS" -> "S" [] t = "SPADE" -> "S" [] t = "HEART" -> "H" [] t = "DIAMOND" -> "D"
      [] t = "CLUB" -> "C" [] OTHER -> t

\* str.rstrip('S') on an upper-case suit word
RStripS(t) ==
    CASE t = "SPADES" -> "SPADE" [] t = "HEARTS" -> "HEART" [] t = "DIAMONDS" -> "DIAMOND"
      [] t = "CLUBS" -> "CLUB" [] OTHER -> t

\* int() on the digits PAT_JSON_1 captures
IntOf(t) == CASE t = "12" -> 12 [] t = "14" -> 14 [] OTHER -> 0

\* One fragment (line) of a string: its text, the closed hints the lower-cased text
\* contains, and for each pattern that matches inside it the two captured groups.
Frag(text, hints, matches) == [text |-> text, hints |-> hints, matches |-> matches]

RankWords == {"ace", "jack", "queen", "king"}
SuitWords == {"spade", "heart", "diamond", "club"}

\* "<rank word>_of_<suit word>s.png": PAT_WORDY alone matches it
WordyFrag(rw, sw) == Frag(rw \o "_of_" \o sw \o "s.png", {}, {<<"PAT_WORDY", rw, sw>>})

Fragments ==
    {WordyFrag(rw, sw) : rw \in RankWords, sw \in SuitWords}
    \cup {Frag("/7D.png", {}, {<<"PAT_SIMPLE", "7", "D">>}),
          Frag("/QSS.png", {}, {<<"PAT_DOUBLE", "Q", "SS">>}),
          Frag("7_of_spades.png", {}, {<<"PAT_WORDY", "7", "spade">>}),
          Frag("rank-Q suit-s", {}, {<<"PAT_CLASS", "Q", "s">>}),
          Frag("K(glyph-club)x", {}, {<<"PAT_SYM", "K", "glyph-club">>}),
          Frag("Q of SPADES", {}, {<<"PAT_OFWORD", "Q", "SPADES">>}),
          Frag("\"rank\":12,\"suit\":\"SPADE\"", {},
               {<<"PAT_JSON_1", "12", "SPADE">>, <<"PAT_WORDY", "2", "SPADE">>}),
          Frag("\"rank\":14,\"suit\":\"CLUB\"", {},
               {<<"PAT_JSON_1", "14", "CLUB">>, <<"PAT_WORDY", "4", "CLUB">>}),
          Frag("\"card\":\"KH\"", {}, {<<"PAT_JSON_2", "K", "H">>}),
          Frag("/img/back/7D.png", {"back"}, {<<"PAT_SIMPLE", "7", "D">>}),
          Frag("card-back", {"back", "card-back"}, {}),
          Frag("lorem", {}, {})}

\* the strings handed to the parsers
Texts == SeqsUpTo(Fragments, MaxFrags)

\* PAT.search(s): the groups of the leftmost match, or <<>>
Search(pat, s) ==
    LET at == {i \in 1..Len(s) : \E m \in s[i].matches : m[1] = pat} IN
    IF at = {} THEN <<>>
    ELSE LET i == CHOOSE j \in at : \A k \in at : j <= k
             m == CHOOSE x \in s[i].matches : x[1] = pat
         IN <<m[2], m[3]>>

\* "any(h in low for h in CLOSED_HINTS)"
HasClosedHint(s) == \E i \in 1..Len(s) : \E h \in CLOSED_HINTS : h \in s[i].hints

card_from(rank_txt, suit_txt) ==
    LET r == Upper(rank_txt)
        s == Upper(suit_txt)
    IN IF r \notin DOMAIN RANK_MAP THEN NoCard
       ELSE IF s \in {"S", "H", "D", "C"} THEN [rank |-> RANK_MAP[r], suit_key |-> s]
       ELSE IF s \in DOMAIN SUIT_WORD THEN [rank |-> RANK_MAP[r], suit_key |-> SUIT_WORD[s]]
       ELSE IF suit_txt \in DOMAIN SUIT_SYMBOL
            THEN [rank |-> RANK_MAP[r], suit_key |-> SUIT_SYMBOL[suit_txt]]
       ELSE NoCard

parse_from_any(s) ==
    IF s = <<>> THEN NoCard
    ELSE IF HasClosedHint(s) THEN NoCard
    ELSE LET m1 == Search("PAT_SIMPLE", s)
             m2 == Search("PAT_DOUBLE", s)
             m3 == Search("PAT_WORDY", s)
             m4 == Search("PAT_CLASS", s)
         IN IF m1 # <<>> THEN card_from(m1[1], m1[2])
            ELSE IF m2 # <<>> THEN card_from(m2[1], FirstChar(m2[2]))
            ELSE IF m3 # <<>> THEN card_from(m3[1], m3[2])
            ELSE IF m4 # <<>> THEN card_from(m4[1], m4[2])
            ELSE NoCard

\* the card PAT_JSON_1 gives: the rank as a number in 1..13
json1_card(m) ==
    IF m # <<>> /\ IntOf(m[1]) >= 1 /\ IntOf(m[1]) <= 13
    THEN [rank |-> IntOf(m[1]),
          suit_key |-> IF Upper(m[2]) \in DOMAIN SUIT_WORD THEN SUIT_WORD[Upper(m[2])]
                       ELSE FirstChar(Upper(m[2]))]
    ELSE NoCard

parse_from_text(html) ==
    LET ms == Search("PAT_SYM", html)
        mo == Search("PAT_OFWORD", html)
        m1 == Search("PAT_JSON_1", html)
        m2 == Search("PAT_JSON_2", html)
        cs == IF ms # <<>> THEN card_from(ms[1], ms[2]) ELSE NoCard
        co == IF mo # <<>> THEN card_from(Upper(mo[1]), RStripS(Upper(mo[2]))) ELSE NoCard
    IN IF cs # NoCard THEN cs
       ELSE IF co # NoCard THEN co
       ELSE IF json1_card(m1) # NoCard THEN json1_card(m1)
       ELSE IF m2 # <<>> THEN card_from(m2[1], m2[2])
       ELSE NoCard

\* the card collect_network_json_card reads from one response body
body_card(body) ==
    LET m1 == Search("PAT_JSON_1", body)
        m2 == Search("PAT_JSON_2", body)
    IN IF body = <<>> THEN NoCard
       ELSE IF json1_card(m1) # NoCard THEN json1_card(m1)
       ELSE IF m2 # <<>> THEN card_from(m2[1], m2[2])
       ELSE NoCard

----------------------------------------------------------------------------
(* The pure functions, call by call                                        *)

ParseInit ==
    /\ pc = "top"
    /\ elapsed = 0
    /\ card_wait = 0
    /\ gate_wait = 0
    /\ parsed = NoCard
    /\ rid = NoRid
    /\ last_sig = NoSig
    /\ saved = 0
    /\ stuck_cycles = 0
    /\ joined = FALSE
    /\ net_new = 0
    /\ prev_shadow = ZERO_SIG
    /\ ctx = Top
    /\ rows = <<>>
    /\ ladder = <<>>
    /\ ops = <<>>
    /\ call = NoCall

PParseAny ==
    /\ call.fn = "none"
    /\ \E s \in Texts : call' = [fn |-> "parse_from_any", s |-> s, out |-> parse_from_any(s)]
    /\ UNCHANGED <<ctx, mainVars>>

PParseText ==
    /\ call.fn = "none"
    /\ \E s \in Texts : call' = [fn |-> "parse_from_text", s |-> s, out |-> parse_from_text(s)]
    /\ UNCHANGED <<ctx, mainVars>>

PBodyCard ==
    /\ call.fn = "none"
    /\ \E s \in Texts : call' = [fn |-> "collect_network_json_card", s |-> s, out |-> body_card(s)]
    /\ UNCHANGED <<ctx, mainVars>>

\* every card card_from can return
AllCards == [rank : 1..13, suit_key : {"S", "H", "D", "C"}]

\* lines 842-847: the row main() builds for a resolved card and hands to append_row
PAppendRow ==
    /\ call.fn = "none"
    /\ \E card \in AllCards, r \in {NoRid} \cup {<<t>> : t \in RoundIdTexts \ {""}} :
         call' = [fn |-> "append_row", card |-> card, row |-> Row(r, card)]
    /\ UNCHANGED <<ctx, mainVars>>

\* tokens and urls one shadow-DOM snapshot holds at most
MaxToks == 2

\* "urls[-120:]", "toks[-360:]" and "len(t) <= 80"
URL_WINDOW == 120
TOK_WINDOW == 360
TOK_MAXLEN == 80

\* the tokens js_collect_shadow can return, and a token of more than 80 characters
LongTok == "long-token"
ShadowToks == {"a", "b", "a|b", LongTok}
ShadowUrls == {"u"}
TokLen(t) == IF t = LongTok THEN TOK_MAXLEN + 1 ELSE IF t = "a|b" THEN 3 ELSE 1

\* seq[-n:]
LastN(seq, n) == IF Len(seq) <= n THEN seq ELSE SubSeq(seq, Len(seq) - n + 1, Len(seq))

\* "[t for t in toks if len(t) <= 80]"
RECURSIVE ShortToks(_)
ShortToks(toks) ==
    IF toks = <<>> THEN <<>>
    ELSE (IF TokLen(Head(toks)) <= TOK_MAXLEN THEN <<Head(toks)>> ELSE <<>>) \o ShortToks(Tail(toks))

\* "compact = (urls[-120:] + toks[-360:])"
shadow_window(urls, toks) == LastN(urls, URL_WINDOW) \o LastN(ShortToks(toks), TOK_WINDOW)

\* "|".join(compact)
RECURSIVE Join(_)
Join(seq) ==
    IF seq = <<>> THEN ""
    ELSE IF Len(seq) = 1 THEN seq[1]
    ELSE seq[1] \o "|" \o Join(Tail(seq))

Snapshots == [urls : SeqsUpTo(ShadowUrls, MaxToks), toks : SeqsUpTo(ShadowToks, MaxToks)]

\* shadow_signature_hex on two snapshots that js_collect_shadow returned
PShadowSig ==
    /\ call.fn = "none"
    /\ \E s1 \in Snapshots, s2 \in Snapshots :
         call' = [fn |-> "shadow_signature_hex",
                  w1 |-> shadow_window(s1.urls, s1.toks), w2 |-> shadow_window(s2.urls, s2.toks),
                  sig1 |-> shadow_signature_hex(Join(shadow_window(s1.urls, s1.toks)), FALSE),
                  sig2 |-> shadow_signature_hex(Join(shadow_window(s2.urls, s2.toks)), FALSE)]
    /\ UNCHANGED <<ctx, mainVars>>

\* one call of collect_network_json_card on the unseen responses of the log
PJsonCall ==
    /\ call.fn = "none"
    /\ \E b \in Batches :
         call' = [fn |-> "network_json_call", bodies |-> b, out |-> collect_network_json_card(b)]
    /\ UNCHANGED <<ctx, mainVars>>

PReturn ==
    /\ call.fn # "none"
    /\ call' = NoCall
    /\ UNCHANGED <<ctx, mainVars>>

ParseNext == PParseAny \/ PParseText \/ PBodyCard \/ PAppendRow \/ PShadowSig \/ PJsonCall \/ PReturn

SpecParse == ParseInit /\ [][ParseNext]_vars

----------------------------------------------------------------------------
(* Claims                                                                  *)

RowKey(row) == <<row.round_id, row.rank, row.suit_key>>
LastRow == rows[Len(rows)]

\* C1: no two consecutively emitted rows have the same dedup key
\* (roundId, rank, suit): a candidate whose key equals the key of the last
\* emitted row is not emitted.
C1_NoConsecutiveDuplicate ==
    \A i \in 1..(Len(rows) - 1) : RowKey(rows[i]) # RowKey(rows[i + 1])

\* a candidate with the key of the last emitted row went through the duplicate
\* check and was not appended
C1_Witness ==
    /\ pc = "gate_loop"
    /\ ops = <<"shadow_signature_hex">>
    /\ Len(rows) >= 1
    /\ RowKey(LastRow) = <<rid, parsed.rank, parsed.suit_key>>

\* C2: when the last emitted row has round id R1 and the resolved candidate has the
\* same rank and suit and a different, present round id R2, the save step emits a
\* row for it.
C2_ChangedRoundIdEmits ==
    [][(/\ pc = "save"
        /\ pc' = "gate_loop"
        /\ Len(rows) >= 1
        /\ LastRow.round_id # NoRid
        /\ rid' # NoRid
        /\ rid' # LastRow.round_id
        /\ parsed.rank = LastRow.rank
        /\ parsed.suit_key = LastRow.suit_key)
       => rows' = Append(rows, Row(rid', parsed))]_vars

\* two rows in a row with the same card and different, present round ids
C2_Witness ==
    /\ Len(rows) >= 2
    /\ rows[Len(rows) - 1].round_id # NoRid
    /\ LastRow.round_id # NoRid
    /\ LastRow.round_id # rows[Len(rows) - 1].round_id
    /\ LastRow.rank = rows[Len(rows) - 1].rank
    /\ LastRow.suit_key = rows[Len(rows) - 1].suit_key

\* C3: at most one row is emitted per round: no two emitted rows carry the same
\* (present) round id.
C3_OneRowPerRound ==
    \A i, j \in 1..Len(rows) :
        (i < j /\ rows[i].round_id # NoRid) => rows[i].round_id # rows[j].round_id

\* C4: within one wait of the next-round gate the recovery actions come in the
\* order nudge, refresh, reopenTable, none before the one below it and none skipped.
C4_LadderInOrder ==
    ladder \in {<<>>, <<"nudge">>, <<"nudge", "refresh">>, <<"nudge", "refresh", "reopenTable">>}

\* a wait that went through all three levels
C4_Witness ==
    /\ pc \in {"gate_loop", "after_gate"}
    /\ ladder = <<"nudge", "refresh", "reopenTable">>
    /\ stuck_cycles = 0
    /\ ~joined

\* C5: dfs_frames_for_card (inside a poll), deep_join_nudge and poke_next_like return
\* with the browsing context they were entered with.
C5_ContextRestored ==
    call.fn \in {"poll", "deep_join_nudge", "poke_next_like"} => call.exit = call.entry

\* C6: no failure of a collaborator call inside the polling loops ends the run.
C6_NoFailureIsFatal == pc # "crashed"

\* C7: with RUN_SECONDS > 0 main() eventually stops, also when no card is ever
\* resolved.
C7_EventuallyStops == <>(pc \in {"done", "crashed"})

\* C8: once a budget is exhausted at the top of an iteration of the card loop or of
\* the gate loop, that iteration performs no collector call, nudge, refresh or
\* reopen_table.
C8_BudgetCheckedAtLoopTop ==
    [][(pc \in {"card_loop", "gate_loop"} /\ (TimeUp(elapsed) \/ RoundsUp(saved)))
       => ops' = <<>>]_vars

\* C9: with MAX_ROUNDS > 0 the number of emitted rows never exceeds MAX_ROUNDS.
C9_SavedWithinBudget ==
    MAX_ROUNDS > 0 => (saved <= MAX_ROUNDS /\ Len(rows) = saved)

\* the run stopped with the round budget used up
C9_Witness == pc = "done" /\ saved = MAX_ROUNDS /\ MAX_ROUNDS > 0

\* the priority the specification gives each evidence source
SpecRank(src) ==
    CASE src = "dom" -> 1 [] src = "js" -> 2 [] src = "shadow" -> 3
      [] src = "network" -> 4 [] src = "text" -> 5 [] OTHER -> 6

\* the source a provenance string names
SourceOfHow(h) ==
    CASE h = "via=dom-url" -> "dom" [] h = "via=dom-js" -> "js" [] h = "via=dom-text" -> "text"
      [] h \in {"via=shadow-url", "via=shadow-text"} -> "shadow" [] h = "via=json" -> "network"
      [] OTHER -> "none"

\* the sources of the polled document (and the network) that hold a card
Yielding(c) ==
    {src \in {"dom", "js", "shadow", "network", "text"} :
        CASE src = "dom" -> c.ev["url"] # NoCard
          [] src = "js" -> c.ev["js"] # NoCard
          [] src = "shadow" -> c.ev["shadowUrl"] # NoCard \/ c.ev["shadowText"] # NoCard
          [] src = "network" -> c.net.card # NoCard
          [] src = "text" -> c.ev["text"] # NoCard}

\* C10: in one poll the card comes from the first source, in the order DOM urls,
\* JS hints, shadow DOM, network bodies, free text, that holds one; no source of
\* lower priority is consulted, and child frames are entered only when the current
\* context holds none.
C10_PriorityOrder ==
    (call.fn = "poll" /\ ~call.exc /\ Yielding(call) # {}) =>
        LET best == CHOOSE b \in Yielding(call) : \A y \in Yielding(call) : SpecRank(b) <= SpecRank(y)
        IN /\ call.p # NoCard
           /\ SourceOfHow(call.how) = best
           /\ \A k \in 1..Len(call.consulted) : SpecRank(call.consulted[k]) <= SpecRank(best)

\* C11: dfs_frames_for_card never parses a context more than max_depth frame levels
\* below the one it starts in, also when the frame tree is deeper, and with
\* max_depth 0 and no evidence in the starting context it returns no match.
C11_DepthBounded ==
    call.fn = "dfs_frames_for_card" =>
        /\ call.deepest <= call.max_depth
        /\ (call.p = NoCard) <=> (call.how = "")
        /\ (call.max_depth = 0 /\ call.ev = NoEvidence /\ ~call.exc) => call.p = NoCard

\* a traversal from the top document that went max_depth levels down a deeper tree
\* and returned no match
C11_Witness ==
    /\ call.fn = "dfs_frames_for_card"
    /\ call.entry = Top
    /\ call.max_depth >= 1
    /\ call.max_depth < TreeDepth
    /\ call.deepest = call.max_depth
    /\ call.p = NoCard
    /\ ~call.exc

\* C12: called with max_depth 0, dfs_frames_for_card returns no match whatever the
\* current context holds, and does not raise.
C12_ZeroDepthNoMatch ==
    (call.fn = "dfs_frames_for_card" /\ call.max_depth = 0) => (call.p = NoCard /\ ~call.exc)

\* C13: no parsing path gives a card for a string that contains a closed/back-card
\* hint: parse_from_any, parse_from_text and the network-body parsing all return no
\* card for it.
C13_ClosedHintNeverParsed ==
    (call.fn \in {"parse_from_any", "parse_from_text", "collect_network_json_card"}
        /\ HasClosedHint(call.s)) => call.out = NoCard

\* the rank and the suit a word-form token names
WordRank(rw) == CASE rw = "ace" -> 1 [] rw = "jack" -> 11 [] rw = "queen" -> 12 [] rw = "king" -> 13
WordSuit(sw) == CASE sw = "spade" -> "S" [] sw = "heart" -> "H" [] sw = "diamond" -> "D" [] sw = "club" -> "C"

\* C14: for a word-form token "<rank word> of <suit word>" without closed hint,
\* parse_from_any returns the card with Ace=1, Jack=11, Queen=12, King=13 and the
\* suit the word names.
C14_WordFormParsed ==
    \A rw \in RankWords, sw \in SuitWords :
        (call.fn = "parse_from_any" /\ call.s = <<WordyFrag(rw, sw)>>)
            => call.out = [rank |-> WordRank(rw), suit_key |-> WordSuit(sw)]

\* C15: for every rank in 1..13 and suit in S, H, D, C the emitted row carries
\* result below7 iff rank < 7, seven iff rank = 7, else above7, and color red iff
\* the suit is H or D, else black, for the rank and suit of the card.
C15_DerivedValues ==
    call.fn = "append_row" =>
        /\ call.row.rank = call.card.rank /\ call.row.suit_key = call.card.suit_key
        /\ (call.row.result = "below7") <=> (call.card.rank < 7)
        /\ (call.row.result = "seven") <=> (call.card.rank = 7)
        /\ (call.row.result = "above7") <=> (call.card.rank > 7)
        /\ (call.row.color = "red") <=> (call.card.suit_key \in {"H", "D"})
        /\ (call.row.color = "black") <=> (call.card.suit_key \in {"S", "C"})

\* the row of the seven of hearts
C15_Witness ==
    /\ call.fn = "append_row"
    /\ call.card = [rank |-> 7, suit_key |-> "H"]
    /\ call.row.result = "seven"
    /\ call.row.color = "red"

\* C16: with an injective digest, two snapshots get the same signature exactly when
\* their windows (last 120 urls followed by last 360 short tokens) are identical.
C16_SameSigIffSameWindow ==
    call.fn = "shadow_signature_hex" => ((call.sig1 = call.sig2) <=> (call.w1 = call.w2))

\* the calls of the last step, as a set
OpsOf(o) == {o[i] : i \in 1..Len(o)}

\* C17: reopen_table is performed only in the next-round gate, after a refresh and
\* with the stuck-cycle count at its cap, and the step that performs it leaves
\* stuck_cycles at 0, the wait timer restarted, joined cleared and the evidence
\* baseline re-taken.
C17_ReopenResetsCounters ==
    [][("reopen_table" \in OpsOf(ops') /\ pc' # "crashed") =>
          /\ pc = "gate_loop"
          /\ \E i, j \in 1..Len(ops') : i < j /\ ops'[i] = "refresh" /\ ops'[j] = "reopen_table"
          /\ ReopenDue(stuck_cycles + 1)
          /\ stuck_cycles' = 0
          /\ gate_wait' \in {0, POLL_SLEEP}
          /\ ~joined'
          /\ net_new' = 0
          /\ ops'[Len(ops')] = "shadow_signature_hex"]_vars

\* a wait in which reopen_table was just performed
C17_Witness ==
    /\ "reopen_table" \in OpsOf(ops)
    /\ pc # "crashed"
    /\ stuck_cycles = 0
    /\ gate_wait \in {0, POLL_SLEEP}

\* C18: while the engine waits for a card, each refresh triggered by the wait timeout
\* increments the stuck-cycle count or, once the count is at its cap, is followed by
\* reopen_table.
C18_CardWaitEscalates ==
    [][(pc = "card_loop" /\ "refresh" \in OpsOf(ops') /\ pc' # "crashed") =>
          (stuck_cycles' = stuck_cycles + 1 \/ "reopen_table" \in OpsOf(ops'))]_vars

\* C19: a failed fingerprint read is no change: with the baseline a failed read ("0"*40),
\* no card in the network bodies, no new network evidence and the time budget not
\* used up, an iteration of the next-round gate that only polled stays in the gate.
C19_FailureIsNotAChange ==
    [][(/\ pc = "gate_loop"
        /\ prev_shadow = ZERO_SIG
        /\ net_new' = 0
        /\ ops' = <<"collect_network_json_card", "collect_network_images", "shadow_signature_hex">>
        /\ ~TimeUp(elapsed'))
       => pc' = "gate_loop"]_vars

\* C20: a card that has not been through the duplicate check (its signature is not
\* last_sig) is still held when the next iteration of the main loop starts.
C20_GateCardKept ==
    [][(/\ pc = "top"
        /\ pc' = "card_loop"
        /\ parsed # NoCard
        /\ last_sig # <<Sig(rid, parsed.rank, parsed.suit_key)>>)
       => parsed' = parsed]_vars

\* C21: when collect_network_json_card returns a card together with a round id, the
\* round id is the one of the response body the card was read from.
C21_RoundIdFromSameBody ==
    (call.fn = "network_json_call" /\ call.out.card # NoCard /\ call.out.rid # NoRid) =>
        LET withCard == {i \in 1..Len(call.bodies) :
                            ~call.bodies[i].fail /\ call.bodies[i].card # NoCard}
            first == CHOOSE i \in withCard : \A j \in withCard : i <= j
        IN call.bodies[first].roundId = call.out.rid

====
